---- MODULE Spec2Model ----
(***************************************************************************)
(* Office supply agent (examples/langchain-baseten/office_supply_agent.py) *)
(* The ledger is the two module-level dictionaries COMPANY_BUDGET and      *)
(* INVENTORY; the seven tools read and mutate them; four of the tools are  *)
(* wrapped by hl.require_approval().                                       *)
(*                                                                         *)
(* Money is counted in cents (12.99 is 1299): the source holds it in       *)
(* binary floating point and reports it with two decimals.                 *)
(* Text is a TLA+ string; text(s) gives its characters, which is what the  *)
(* substring tests of the item lookup work on.                             *)
(* The justification, vendor and reason arguments only appear in the       *)
(* returned text and are left out of the calls.                            *)
(***************************************************************************)
EXTENDS Integers, Sequences, FiniteSets, TLC

VARIABLES COMPANY_BUDGET, INVENTORY, pending, done, ncalls, threads

vars == <<COMPANY_BUDGET, INVENTORY, pending, done, ncalls, threads>>

\* Number of tool calls the agent makes in one run of the sequential model.
MaxCalls == 2

\* purchase_expensive_item refuses items costing this much or less (200.00).
EXPENSIVE_FLOOR == 20000

-----------------------------------------------------------------------------
(* Text *)

text(s) ==
  CASE
    s = "paper clips" -> <<"p", "a", "p", "e", "r", " ", "c", "l", "i", "p", "s">>
  []
    s = "pens" -> <<"p", "e", "n", "s">>
  []
    s = "staplers" -> <<"s", "t", "a", "p", "l", "e", "r", "s">>
  []
    s = "coffee" -> <<"c", "o", "f", "f", "e", "e">>
  []
    s = "desk chairs" -> <<"d", "e", "s", "k", " ", "c", "h", "a", "i", "r", "s">>
  []
    s = "standing desks" -> <<"s", "t", "a", "n", "d", "i", "n", "g", " ", "d", "e", "s", "k", "s">>
  []
    s = "coffee machine" -> <<"c", "o", "f", "f", "e", "e", " ", "m", "a", "c", "h", "i", "n", "e">>
  []
    s = "gaming chair" -> <<"g", "a", "m", "i", "n", "g", " ", "c", "h", "a", "i", "r">>
  []
    s = "executive desk" -> <<"e", "x", "e", "c", "u", "t", "i", "v", "e", " ", "d", "e", "s", "k">>
  []
    s = " Desk " -> <<" ", "D", "e", "s", "k", " ">>
  []
    s = "Gaming Chair" -> <<"G", "a", "m", "i", "n", "g", " ", "C", "h", "a", "i", "r">>
  []
    s = "new pens" -> <<"n", "e", "w", " ", "p", "e", "n", "s">>
  []
    s = "yacht" -> <<"y", "a", "c", "h", "t">>

UPPERCASE ==
  <<"A", "B", "C", "D", "E", "F", "G", "H", "I", "J", "K", "L", "M",
    "N", "O", "P", "Q", "R", "S", "T", "U", "V", "W", "X", "Y", "Z">>

LOWERCASE ==
  <<"a", "b", "c", "d", "e", "f", "g", "h", "i", "j", "k", "l", "m",
    "n", "o", "p", "q", "r", "s", "t", "u", "v", "w", "x", "y", "z">>

\* str.lower() on a sequence of characters
lower(cs) ==
  [i \in 1..Len(cs) |->
     IF \E j \in 1..26 : UPPERCASE[j] = cs[i]
     THEN LOWERCASE[CHOOSE j \in 1..26 : UPPERCASE[j] = cs[i]]
     ELSE cs[i]]

\* str.strip(): leading and trailing blanks removed
strip(cs) ==
  LET solid == {i \in 1..Len(cs) : cs[i] # " "}
  IN  IF solid = {} THEN <<>>
      ELSE LET first == CHOOSE i \in solid : \A j \in solid : i <= j
               last  == CHOOSE i \in solid : \A j \in solid : j <= i
           IN  SubSeq(cs, first, last)

\* item_key = item.lower().strip()
item_key(item) == strip(lower(text(item)))

\* Python's `a in b` on strings
contains(a, b) ==
  \E i \in 0..(Len(b) - Len(a)) : SubSeq(b, i + 1, i + Len(a)) = a

\* `item_key in key or key in item_key`
matches(ik, key) == contains(ik, text(key)) \/ contains(text(key), ik)

\* The entry the `for key, info in INVENTORY.items()` loop stops at: the first
\* one, in insertion order, whose key matches; 0 when the loop runs out.
first_match(I, ik) ==
  LET hits == {i \in 1..Len(I) : matches(ik, I[i].key)}
  IN  IF hits = {} THEN 0 ELSE CHOOSE i \in hits : \A j \in hits : i <= j

-----------------------------------------------------------------------------
(* The seeded ledger *)

INVENTORY_SEED ==
  << [key |-> "paper clips",    stock |-> 500, price |-> 1299],
     [key |-> "pens",           stock |-> 200, price |-> 850],
     [key |-> "staplers",       stock |-> 50,  price |-> 2499],
     [key |-> "coffee",         stock |-> 30,  price |-> 1599],
     [key |-> "desk chairs",    stock |-> 15,  price |-> 14999],
     [key |-> "standing desks", stock |-> 8,   price |-> 29999],
     [key |-> "coffee machine", stock |-> 3,   price |-> 79999],
     [key |-> "gaming chair",   stock |-> 2,   price |-> 129999],
     [key |-> "executive desk", stock |-> 1,   price |-> 249999] >>

COMPANY_BUDGET_SEED == [remaining |-> 500000, monthly_limit |-> 500000]

\* What a tool leaves behind: the two dictionaries and the value it returns.
Outcome(B, I, r) == [budget |-> B, inventory |-> I, result |-> r]

-----------------------------------------------------------------------------
(* Tools that need no approval *)

\* check_inventory, had it taken a unit off the shelf while looking.
check_inventory_reserving(B, I, item) ==
  LET k == first_match(I, item_key(item))
  IN  IF k # 0
      THEN Outcome(B, [I EXCEPT ![k].stock = @ - 1],
                   [kind |-> "in_stock", stock |-> I[k].stock, price |-> I[k].price])
      ELSE Outcome(B, I, [kind |-> "not_found"])

check_inventory(B, I, item) ==
  LET k == first_match(I, item_key(item))
  IN  IF k # 0
      THEN Outcome(B, I, [kind |-> "in_stock", stock |-> I[k].stock, price |-> I[k].price])
      ELSE Outcome(B, I, [kind |-> "not_found"])

\* (remaining / limit) raises ZeroDivisionError when the limit is 0
get_budget(B, I) ==
  IF B.monthly_limit = 0
  THEN Outcome(B, I, [kind |-> "ZeroDivisionError"])
  ELSE Outcome(B, I, [kind |-> "budget_status", remaining |-> B.remaining,
                      limit |-> B.monthly_limit])

check_recent_purchases(B, I) == Outcome(B, I, [kind |-> "recent_purchases"])

-----------------------------------------------------------------------------
(* Bodies of the tools behind hl.require_approval() *)

\* purchase_basic_item, had it charged the unit price whatever the quantity.
purchase_basic_item_unit_cost(B, I, item, quantity) ==
  LET k == first_match(I, item_key(item))
  IN  IF k = 0 THEN Outcome(B, I, [kind |-> "not_found"])
      ELSE LET total_cost == I[k].price
           IN  IF B.remaining >= total_cost
               THEN Outcome([B EXCEPT !.remaining = @ - total_cost],
                            [I EXCEPT ![k].stock = @ - quantity],
                            [kind |-> "purchased", cost |-> total_cost,
                             remaining |-> B.remaining - total_cost])
               ELSE Outcome(B, I, [kind |-> "insufficient_budget", cost |-> total_cost,
                                   remaining |-> B.remaining])

\* purchase_basic_item, had it taken the stock before testing the funds.
purchase_basic_item_partial(B, I, item, quantity) ==
  LET k == first_match(I, item_key(item))
  IN  IF k = 0 THEN Outcome(B, I, [kind |-> "not_found"])
      ELSE LET total_cost == quantity * I[k].price
           IN  IF B.remaining >= total_cost
               THEN Outcome([B EXCEPT !.remaining = @ - total_cost],
                            [I EXCEPT ![k].stock = @ - quantity],
                            [kind |-> "purchased", cost |-> total_cost,
                             remaining |-> B.remaining - total_cost])
               ELSE Outcome(B, [I EXCEPT ![k].stock = @ - quantity],
                            [kind |-> "insufficient_budget", cost |-> total_cost,
                             remaining |-> B.remaining])

purchase_basic_item(B, I, item, quantity) ==
  LET k == first_match(I, item_key(item))
  IN  IF k = 0 THEN Outcome(B, I, [kind |-> "not_found"])
      ELSE LET total_cost == quantity * I[k].price
           IN  IF B.remaining >= total_cost
               THEN Outcome([B EXCEPT !.remaining = @ - total_cost],
                            [I EXCEPT ![k].stock = @ - quantity],
                            [kind |-> "purchased", cost |-> total_cost,
                             remaining |-> B.remaining - total_cost])
               ELSE Outcome(B, I, [kind |-> "insufficient_budget", cost |-> total_cost,
                                   remaining |-> B.remaining])

purchase_expensive_item(B, I, item) ==
  LET k == first_match(I, item_key(item))
  IN  IF k = 0 THEN Outcome(B, I, [kind |-> "not_found"])
      ELSE LET cost == I[k].price
           IN  IF cost <= EXPENSIVE_FLOOR
               THEN Outcome(B, I, [kind |-> "use_purchase_basic_item", cost |-> cost])
               ELSE IF B.remaining >= cost
               THEN Outcome([B EXCEPT !.remaining = @ - cost],
                            [I EXCEPT ![k].stock = @ - 1],
                            [kind |-> "purchased", cost |-> cost,
                             remaining |-> B.remaining - cost])
               ELSE Outcome(B, I, [kind |-> "insufficient_budget", cost |-> cost,
                                   remaining |-> B.remaining])

purchase_luxury_item(B, I, item, price) ==
  IF B.remaining >= price
  THEN Outcome([B EXCEPT !.remaining = @ - price], I,
               [kind |-> "purchased", cost |-> price,
                remaining |-> B.remaining - price])
  ELSE Outcome(B, I, [kind |-> "insufficient_budget", cost |-> price,
                      remaining |-> B.remaining])

emergency_budget_increase(B, I, amount) ==
  Outcome([remaining |-> B.remaining + amount,
           monthly_limit |-> B.monthly_limit + amount], I,
          [kind |-> "budget_increased", amount |-> amount,
           limit |-> B.monthly_limit + amount,
           remaining |-> B.remaining + amount])

-----------------------------------------------------------------------------
(* hl.require_approval() *)

GatewayOutcomes == {"approved", "denied", "timed_out", "gateway_unavailable"}

\* The wrapper the decorator puts around a tool: the tool's body runs, and its
\* value is returned, only when the human approved the call; any other outcome
\* of the gateway returns a refusal and the body is not run.
require_approval(outcome, B, I, body) ==
  IF outcome = "approved" THEN body
  ELSE Outcome(B, I, [kind |-> "not_approved", why |-> outcome])

\* The four decorated tools, as the agent calls them.
\* purchase_basic_item, had the decorator been left off.
tool_purchase_basic_item_undecorated(outcome, B, I, item, quantity) ==
  purchase_basic_item(B, I, item, quantity)

tool_purchase_basic_item(outcome, B, I, item, quantity) ==
  require_approval(outcome, B, I, purchase_basic_item(B, I, item, quantity))

tool_purchase_expensive_item(outcome, B, I, item) ==
  require_approval(outcome, B, I, purchase_expensive_item(B, I, item))

tool_purchase_luxury_item(outcome, B, I, item, price) ==
  require_approval(outcome, B, I, purchase_luxury_item(B, I, item, price))

tool_emergency_budget_increase(outcome, B, I, amount) ==
  require_approval(outcome, B, I, emergency_budget_increase(B, I, amount))

-----------------------------------------------------------------------------
(* The agent's calls *)

ReadOnlyTools == {"check_inventory", "get_budget", "check_recent_purchases"}

PurchaseTools ==
  {"purchase_basic_item", "purchase_expensive_item", "purchase_luxury_item"}

GatedTools == PurchaseTools \cup {"emergency_budget_increase"}

\* Arguments the agent passes.
Items == {"paper clips", " Desk ", "executive desk", "new pens", "Gaming Chair", "yacht"}

Quantities == {-10, 50, 300}

LuxuryPrices == {-10000, 300000, 490000}

Amounts == {-500000, 100000}

\* A call: the tool, its item argument and its numeric argument (quantity,
\* price or amount), and the identity of the request it belongs to.
Call(op, item, num, id) == [op |-> op, item |-> item, num |-> num, id |-> id]

NoCall == Call("none", "", 0, 0)

Ledger(B, I) == [budget |-> B, inventory |-> I]

\* What the agent's call of a decorated tool does, given the gateway's outcome.
run_tool(outcome, B, I, c) ==
  CASE c.op = "purchase_basic_item" ->
         tool_purchase_basic_item(outcome, B, I, c.item, c.num)
    [] c.op = "purchase_expensive_item" ->
         tool_purchase_expensive_item(outcome, B, I, c.item)
    [] c.op = "purchase_luxury_item" ->
         tool_purchase_luxury_item(outcome, B, I, c.item, c.num)
    [] c.op = "emergency_budget_increase" ->
         tool_emergency_budget_increase(outcome, B, I, c.num)

NoThreads == <<>>

Init ==
  /\ COMPANY_BUDGET = COMPANY_BUDGET_SEED
  /\ INVENTORY = INVENTORY_SEED
  /\ pending = [call |-> NoCall, before |-> Ledger(COMPANY_BUDGET_SEED, INVENTORY_SEED)]
  /\ done = [call |-> NoCall, outcome |-> "none",
             before |-> Ledger(COMPANY_BUDGET_SEED, INVENTORY_SEED),
             result |-> [kind |-> "none"], stored |-> [kind |-> "none"],
             mutations |-> 0]
  /\ ncalls = 0
  /\ threads = NoThreads

Idle == pending.call = NoCall /\ ncalls < MaxCalls

\* A tool without the decorator runs at once.
Ran(c, r) ==
  /\ COMPANY_BUDGET' = r.budget
  /\ INVENTORY' = r.inventory
  /\ done' = [call |-> c, outcome |-> "none",
              before |-> Ledger(COMPANY_BUDGET, INVENTORY),
              result |-> r.result, stored |-> r.result,
              mutations |-> IF Ledger(r.budget, r.inventory) # Ledger(COMPANY_BUDGET, INVENTORY)
                            THEN 1 ELSE 0]
  /\ ncalls' = ncalls + 1
  /\ UNCHANGED <<pending, threads>>

CheckInventory ==
  /\ Idle
  /\ \E item \in Items :
       Ran(Call("check_inventory", item, 0, ncalls + 1),
           check_inventory(COMPANY_BUDGET, INVENTORY, item))

GetBudget ==
  /\ Idle
  /\ Ran(Call("get_budget", "", 0, ncalls + 1), get_budget(COMPANY_BUDGET, INVENTORY))

CheckRecentPurchases ==
  /\ Idle
  /\ Ran(Call("check_recent_purchases", "", 0, ncalls + 1),
         check_recent_purchases(COMPANY_BUDGET, INVENTORY))

\* A decorated tool first asks the gateway and waits for its answer.
Asked(c) ==
  /\ pending' = [call |-> c, before |-> Ledger(COMPANY_BUDGET, INVENTORY)]
  /\ ncalls' = ncalls + 1
  /\ UNCHANGED <<COMPANY_BUDGET, INVENTORY, done, threads>>

PurchaseBasicItem ==
  /\ Idle
  /\ \E item \in Items, quantity \in Quantities :
       Asked(Call("purchase_basic_item", item, quantity, ncalls + 1))

PurchaseExpensiveItem ==
  /\ Idle
  /\ \E item \in Items : Asked(Call("purchase_expensive_item", item, 0, ncalls + 1))

PurchaseLuxuryItem ==
  /\ Idle
  /\ \E price \in LuxuryPrices :
       Asked(Call("purchase_luxury_item", "yacht", price, ncalls + 1))

EmergencyBudgetIncrease ==
  /\ Idle
  /\ \E amount \in Amounts :
       Asked(Call("emergency_budget_increase", "", amount, ncalls + 1))

\* The caller delivers again a request that already got its result: the same
\* tool with the same arguments. The tools keep no record of requests, so
\* this is one more call.
Resubmit ==
  /\ Idle
  /\ done.call.op \in GatedTools
  /\ Asked(done.call)

\* The gateway answers the waiting call.
GatewayDecides ==
  /\ pending.call # NoCall
  /\ \E outcome \in GatewayOutcomes :
       LET c == pending.call
           r == run_tool(outcome, COMPANY_BUDGET, INVENTORY, c)
           again == c.id = done.call.id
           wrote == Ledger(r.budget, r.inventory) # Ledger(COMPANY_BUDGET, INVENTORY)
       IN  /\ COMPANY_BUDGET' = r.budget
           /\ INVENTORY' = r.inventory
           /\ done' = [call |-> c, outcome |-> outcome, before |-> pending.before,
                       result |-> r.result,
                       stored |-> IF again THEN done.stored ELSE r.result,
                       mutations |-> (IF again THEN done.mutations ELSE 0)
                                     + (IF wrote THEN 1 ELSE 0)]
           /\ pending' = [call |-> NoCall,
                          before |-> Ledger(COMPANY_BUDGET_SEED, INVENTORY_SEED)]
           /\ UNCHANGED <<ncalls, threads>>

Next ==
  \/ CheckInventory
  \/ GetBudget
  \/ CheckRecentPurchases
  \/ PurchaseBasicItem
  \/ PurchaseExpensiveItem
  \/ PurchaseLuxuryItem
  \/ EmergencyBudgetIncrease
  \/ Resubmit
  \/ GatewayDecides

Spec == Init /\ [][Next]_vars

-----------------------------------------------------------------------------
(* Properties of the sequential agent *)

NowLedger == Ledger(COMPANY_BUDGET, INVENTORY)

Approved(op) == done.call.op = op /\ done.outcome = "approved"

\* The catalog entry the last call's item argument resolved to (0: none).
DoneEntry == first_match(done.before.inventory, item_key(done.call.item))

\* Units the last call asked for.
DoneQuantity == IF done.call.op = "purchase_basic_item" THEN done.call.num ELSE 1

\* What the last purchase call costs, at the prices it saw.
DoneCost ==
  IF done.call.op = "purchase_luxury_item" THEN done.call.num
  ELSE DoneQuantity * done.before.inventory[DoneEntry].price

DonePricedPurchase ==
  /\ done.outcome = "approved"
  /\ done.call.op \in PurchaseTools
  /\ done.call.op # "purchase_luxury_item" => DoneEntry # 0

\* C1: in every reachable state the remaining budget is at least 0 and every
\* item's stock is at least 0.
C1_LedgerNonNegative ==
  /\ COMPANY_BUDGET.remaining >= 0
  /\ \A i \in 1..Len(INVENTORY) : INVENTORY[i].stock >= 0

\* C2: the ledger changes only on an approved decision: while a decorated
\* call waits for the gateway the ledger is what it was when the call was
\* made, and after a denied, timed-out or gateway-unavailable outcome it is
\* still that ledger and the caller gets the refusal.
C2_LedgerChangesOnlyWhenApproved ==
  /\ pending.call # NoCall => NowLedger = pending.before
  /\ (done.call.op \in GatedTools /\ done.outcome # "approved") =>
        /\ NowLedger = done.before
        /\ done.result.kind = "not_approved"

\* The gateway denied the purchase of a gaming chair.
C2_Witness ==
  /\ done.call.op = "purchase_expensive_item"
  /\ done.call.item = "Gaming Chair"
  /\ done.outcome = "denied"
  /\ pending.call = NoCall

\* C3 as stated: an approved purchase whose cost exceeds the remaining
\* budget reports insufficient funds and leaves the whole ledger as it was.
C3_InsufficientFundsReported ==
  (DonePricedPurchase /\ DoneCost > done.before.budget.remaining) =>
     /\ done.result.kind = "insufficient_budget"
     /\ NowLedger = done.before

\* C3 (amended): an approved purchase whose cost exceeds the remaining budget
\* leaves the whole ledger as it was; it reports insufficient funds, except
\* that purchase_expensive_item of an item priced 200.00 or less reports that
\* purchase_basic_item is to be used.
C3_NothingAppliedWhenUnaffordable ==
  (DonePricedPurchase /\ DoneCost > done.before.budget.remaining) =>
     /\ NowLedger = done.before
     /\ done.result.kind =
          IF done.call.op = "purchase_expensive_item" /\ DoneCost <= EXPENSIVE_FLOOR
          THEN "use_purchase_basic_item" ELSE "insufficient_budget"

\* An approved purchase_expensive_item of an item over 200.00 met a budget
\* smaller than its price.
C3_Witness ==
  /\ Approved("purchase_expensive_item")
  /\ DoneEntry # 0
  /\ DoneCost > EXPENSIVE_FLOOR
  /\ DoneCost > done.before.budget.remaining

\* C4: a committed purchase of a cataloged item lowers the remaining budget
\* by quantity * unit price and that item's stock by quantity (1 for
\* purchase_expensive_item); no other entry and not the monthly limit
\* changes. 50 paper clips cost 649.50 and 50 units; an executive desk bought
\* with 5000.00 leaves 2500.01.
C4_CommittedPurchaseExact ==
  /\ (done.outcome = "approved" /\ done.result.kind = "purchased"
        /\ done.call.op \in {"purchase_basic_item", "purchase_expensive_item"}) =>
       LET k == DoneEntry
           q == DoneQuantity
           was == done.before
       IN  /\ k # 0
           /\ COMPANY_BUDGET.remaining
                = was.budget.remaining - q * was.inventory[k].price
           /\ COMPANY_BUDGET.monthly_limit = was.budget.monthly_limit
           /\ Len(INVENTORY) = Len(was.inventory)
           /\ \A i \in 1..Len(INVENTORY) :
                INVENTORY[i] =
                  IF i = k THEN [was.inventory[i] EXCEPT !.stock = @ - q]
                  ELSE was.inventory[i]
  /\ (Approved("purchase_basic_item") /\ done.result.kind = "purchased"
        /\ done.call.item = "paper clips" /\ done.call.num = 50) =>
       /\ done.before.budget.remaining - COMPANY_BUDGET.remaining = 64950
       /\ done.before.inventory[1].stock - INVENTORY[1].stock = 50
  /\ (Approved("purchase_expensive_item") /\ done.call.item = "executive desk"
        /\ done.before.budget.remaining = 500000) =>
       /\ done.result.kind = "purchased"
       /\ COMPANY_BUDGET.remaining = 250001

\* 50 paper clips were bought.
C4_Witness ==
  /\ Approved("purchase_basic_item")
  /\ done.call.item = "paper clips"
  /\ done.call.num = 50
  /\ done.result.kind = "purchased"
  /\ COMPANY_BUDGET.remaining = 435050

\* C5: an approved purchase of a cataloged item whose stock is smaller than
\* the quantity asked for, with a budget that covers the cost, is rejected as
\* out of stock and changes neither budget nor stock.
C5_OutOfStockRejected ==
  (done.outcome = "approved"
     /\ done.call.op \in {"purchase_basic_item", "purchase_expensive_item"}
     /\ DoneEntry # 0
     /\ done.before.inventory[DoneEntry].stock < DoneQuantity
     /\ DoneCost <= done.before.budget.remaining) =>
       /\ done.result.kind \in {"out_of_stock", "not_found"}
       /\ NowLedger = done.before

\* C6: a request changes the ledger at most once, and delivering it again
\* after it got its result returns that result. Stated for the requests whose
\* numeric argument is not negative.
C6_RequestAppliedOnce ==
  done.call.num >= 0 =>
     /\ done.mutations <= 1
     /\ done.result = done.stored

\* C8: a purchase_basic_item with a negative quantity or a
\* purchase_luxury_item with a negative price leaves the ledger unchanged.
C8_NegativeArgumentsChangeNothing ==
  (done.call.op \in {"purchase_basic_item", "purchase_luxury_item"}
     /\ done.call.num < 0) => NowLedger = done.before

\* C9: check_inventory, get_budget and check_recent_purchases ask for no
\* approval and leave budget, limit and every stock as they were.
C9_ReadOnlyToolsChangeNothing ==
  done.call.op \in ReadOnlyTools =>
     /\ NowLedger = done.before
     /\ done.outcome = "none"
     /\ done.mutations = 0

\* check_inventory found an item, in a ledger a purchase had already changed.
C9_Witness ==
  /\ done.call.op = "check_inventory"
  /\ done.result.kind = "in_stock"
  /\ NowLedger # Ledger(COMPANY_BUDGET_SEED, INVENTORY_SEED)

\* C10: the remaining budget never exceeds the monthly limit.
C10_RemainingWithinLimit ==
  COMPANY_BUDGET.remaining <= COMPANY_BUDGET.monthly_limit

-----------------------------------------------------------------------------
(* Two approved purchases running in two threads *)
(* The tool bodies take no lock. A thread may be preempted between any two  *)
(* reads or writes of the dictionaries: between the funds test and the      *)
(* debit, and inside `d[k] -= v`, which reads d[k] and later stores it.     *)

Tids == {1, 2}

\* Approved purchases with well-formed arguments.
ThreadCalls ==
  { Call("purchase_basic_item", "paper clips", 50, 0),
    Call("purchase_basic_item", "new pens", 300, 0),
    Call("purchase_expensive_item", "executive desk", 0, 0),
    Call("purchase_expensive_item", " Desk ", 0, 0),
    Call("purchase_basic_item", "yacht", 50, 0),
    Call("purchase_luxury_item", "yacht", 300000, 0) }

Thread(c) ==
  [pc |-> "lookup", call |-> c, k |-> 0, cost |-> 0, loaded |-> 0,
   result |-> [kind |-> "none"]]

InitConc ==
  /\ COMPANY_BUDGET = COMPANY_BUDGET_SEED
  /\ INVENTORY = INVENTORY_SEED
  /\ pending = [call |-> NoCall, before |-> Ledger(COMPANY_BUDGET_SEED, INVENTORY_SEED)]
  /\ done = [call |-> NoCall, outcome |-> "none",
             before |-> Ledger(COMPANY_BUDGET_SEED, INVENTORY_SEED),
             result |-> [kind |-> "none"], stored |-> [kind |-> "none"],
             mutations |-> 0]
  /\ ncalls = 0
  /\ threads \in [Tids -> {Thread(c) : c \in ThreadCalls}]

Returns(t, r) == [threads EXCEPT ![t].pc = "done", ![t].result = r]

\* Up to the funds test: the item lookup and the cost.
Lookup(t) ==
  /\ threads[t].pc = "lookup"
  /\ LET c == threads[t].call
         k == IF c.op = "purchase_luxury_item" THEN 0
              ELSE first_match(INVENTORY, item_key(c.item))
         cost == CASE c.op = "purchase_basic_item" -> c.num * INVENTORY[k].price
                   [] c.op = "purchase_expensive_item" -> INVENTORY[k].price
                   [] c.op = "purchase_luxury_item" -> c.num
     IN  threads' =
           IF c.op # "purchase_luxury_item" /\ k = 0
           THEN Returns(t, [kind |-> "not_found"])
           ELSE IF c.op = "purchase_expensive_item" /\ cost <= EXPENSIVE_FLOOR
           THEN Returns(t, [kind |-> "use_purchase_basic_item", cost |-> cost])
           ELSE [threads EXCEPT ![t].pc = "check", ![t].k = k, ![t].cost = cost]
  /\ UNCHANGED <<COMPANY_BUDGET, INVENTORY, pending, done, ncalls>>

\* if COMPANY_BUDGET["remaining"] >= cost
CheckFunds(t) ==
  /\ threads[t].pc = "check"
  /\ threads' =
       IF COMPANY_BUDGET.remaining >= threads[t].cost
       THEN [threads EXCEPT ![t].pc = "load_remaining"]
       ELSE Returns(t, [kind |-> "insufficient_budget", cost |-> threads[t].cost])
  /\ UNCHANGED <<COMPANY_BUDGET, INVENTORY, pending, done, ncalls>>

\* COMPANY_BUDGET["remaining"] -= cost, the read
LoadRemaining(t) ==
  /\ threads[t].pc = "load_remaining"
  /\ threads' = [threads EXCEPT ![t].pc = "store_remaining",
                                ![t].loaded = COMPANY_BUDGET.remaining]
  /\ UNCHANGED <<COMPANY_BUDGET, INVENTORY, pending, done, ncalls>>

\* COMPANY_BUDGET["remaining"] -= cost, the write
StoreRemaining(t) ==
  /\ threads[t].pc = "store_remaining"
  /\ COMPANY_BUDGET' =
       [COMPANY_BUDGET EXCEPT !.remaining = threads[t].loaded - threads[t].cost]
  /\ threads' =
       IF threads[t].call.op = "purchase_luxury_item"
       THEN Returns(t, [kind |-> "purchased", cost |-> threads[t].cost])
       ELSE [threads EXCEPT ![t].pc = "load_stock"]
  /\ UNCHANGED <<INVENTORY, pending, done, ncalls>>

\* INVENTORY[key]["stock"] -= quantity, the read
LoadStock(t) ==
  /\ threads[t].pc = "load_stock"
  /\ threads' = [threads EXCEPT ![t].pc = "store_stock",
                                ![t].loaded = INVENTORY[threads[t].k].stock]
  /\ UNCHANGED <<COMPANY_BUDGET, INVENTORY, pending, done, ncalls>>

\* INVENTORY[key]["stock"] -= quantity, the write
StoreStock(t) ==
  /\ threads[t].pc = "store_stock"
  /\ LET q == IF threads[t].call.op = "purchase_basic_item"
              THEN threads[t].call.num ELSE 1
     IN  INVENTORY' =
           [INVENTORY EXCEPT ![threads[t].k].stock = threads[t].loaded - q]
  /\ threads' = Returns(t, [kind |-> "purchased", cost |-> threads[t].cost])
  /\ UNCHANGED <<COMPANY_BUDGET, pending, done, ncalls>>

NextConc ==
  \E t \in Tids :
    \/ Lookup(t)
    \/ CheckFunds(t)
    \/ LoadRemaining(t)
    \/ StoreRemaining(t)
    \/ LoadStock(t)
    \/ StoreStock(t)

SpecConc == InitConc /\ [][NextConc]_vars

\* The body of an approved call, run alone.
run_body(L, c) ==
  LET r == CASE c.op = "purchase_basic_item" ->
                  purchase_basic_item(L.budget, L.inventory, c.item, c.num)
             [] c.op = "purchase_expensive_item" ->
                  purchase_expensive_item(L.budget, L.inventory, c.item)
             [] c.op = "purchase_luxury_item" ->
                  purchase_luxury_item(L.budget, L.inventory, c.item, c.num)
  IN  Ledger(r.budget, r.inventory)

\* The ledgers the two purchases leave when one runs after the other.
SequentialLedgers ==
  LET seed == Ledger(COMPANY_BUDGET_SEED, INVENTORY_SEED)
  IN  { run_body(run_body(seed, threads[1].call), threads[2].call),
        run_body(run_body(seed, threads[2].call), threads[1].call) }

\* C7: two approved purchases running at the same time leave the ledger one
\* of their two sequential orders leaves, and the budget is not debited
\* below zero.
C7_ConcurrentPurchasesSerialized ==
  (\A t \in Tids : threads[t].pc = "done") =>
     /\ NowLedger \in SequentialLedgers
     /\ COMPANY_BUDGET.remaining >= 0

====
